---- MODULE Spec2Model ----
(***************************************************************************)
(* Model of the resilience core of gohlcv:                                 *)
(*   internal/ratelimit/ratelimit.go  RateLimiter (three fixed windows)    *)
(*   internal/retry/retry.go          Retryer (bounded exponential backoff)*)
(*   internal/httpclient/client.go    Client (limiter, then transport,     *)
(*                                    inside the retry loop)               *)
(*   marketdata                       MarketData.Fetch (provider routing)  *)
(*                                                                         *)
(* Time is counted in abstract ticks.  A context is modelled by its Err()  *)
(* value: "none" while it has not fired, then "Canceled" or                *)
(* "DeadlineExceeded" for good.  An error value nil is the string "nil".   *)
(***************************************************************************)
EXTENDS Integers, Sequences, FiniteSets, TLC

\* ---------------------------------------------------------------- bounds
NumCallers == 2
MaxClock == 4
NumDoers == 1
\* Widths of uint and of time.Duration (int64), scaled down.
UintBits == 2
DurBits == 4
\* Largest retry budget tried, besides the largest uint.
MaxRetryBudget == 2
\* Ticks of the clock in a calendar day.
DayLen == 2

\* ------------------------------------------------- window durations (ticks)
\* time.Second, time.Minute, time.Hour scaled to ticks, order kept.
SecDur == 1
MinDur == 2
HrDur == 3

Callers == 1..NumCallers
Doers == 1..NumDoers
\* Ceilings: never admit, admit one, headroom for every call.
Limits == {0, 1, NumCallers}
UintMod == 2 ^ UintBits
Uints == 0..(UintMod - 1)
\* Values of maxRetries: the small budgets and the largest uint.
RetryCounts == {r \in Uints : r <= MaxRetryBudget \/ r = UintMod - 1}
DurMod == 2 ^ DurBits
MaxDuration == (DurMod \div 2) - 1
Durations == {0, 1, 3, MaxDuration}
FnErrs == {"nil", "e1", "e2"}
NoErr == "nil"
CtxErrs == {"Canceled", "DeadlineExceeded"}

VARIABLES
    \* RateLimiter fields
    requestsPerSecond, requestsPerMinute, requestsPerHour,
    secCount, minCount, hrCount,
    secReset, minReset, hrReset,
    mu,          \* 0 when unlocked, else the caller holding the mutex
    \* environment
    now,         \* the clock read by time.Now()
    \* one Wait call per caller
    pc,          \* position of the caller inside Wait
    ctx,         \* ctx.Err() of the caller's context
    ret,         \* value returned by Wait ("none" until it returns)
    consumed,    \* what the call's increment() added to <<sec, min, hr>>
    overlap,     \* some call was entered while another was in progress
    \* Retryer fields
    maxRetries, baseDelay, maxDelay,
    \* one Do call at a time per doer
    rpc,         \* position of the doer inside Do
    attempt,     \* the loop variable of Do
    lastErr,     \* Do's local lastErr
    delay,       \* Do's local delay (last computed backoff)
    rctx,        \* ctx.Err() of the doer's context
    rret,        \* value returned by Do ("none" until it returns)
    calls,       \* invocations of fn in the current Do call
    allRetry,    \* every invocation so far reported shouldRetry = true
    lastFnErr,   \* err reported by the latest invocation of fn
    sleeps,      \* backoff sleeps begun in the current Do call
    earlier,     \* some Do call was entered after another had returned
    \* Client
    retryOnStatus,  \* Client.retryOnStatus, as the set of its elements
    resp,        \* Client.Do's local resp
    tcalls,      \* calls of c.httpClient.Do in the current Client.Do call
    nFail,       \* how many of them ended in a transport failure
    \* MarketData: the providers' limiter configurations, one Fetch call
    provCfg,     \* RateLimitConfig given to each provider's client
    fpc,         \* position inside Fetch
    fargs,       \* start and end as the caller passed them
    fetchNow,    \* Fetch's local now
    start, end,  \* Fetch's start and end after its defaulting
    data, err,   \* what m.upstox.Provide returned
    fret,        \* what Fetch returned
    upstoxCalls, yahooCalls,  \* calls of each provider's Provide
    yahooRet,    \* what m.yahoo.Provide returned
    ureq, yreq   \* the range each provider put in its request URL

rlVars == <<requestsPerSecond, requestsPerMinute, requestsPerHour,
            secCount, minCount, hrCount, secReset, minReset, hrReset, mu>>
callVars == <<pc, ctx, ret, consumed, overlap>>
cfgVars == <<maxRetries, baseDelay, maxDelay>>
doVars == <<rpc, attempt, lastErr, delay, rctx, rret, calls, allRetry, lastFnErr,
           sleeps, earlier>>
retryVars == <<cfgVars, doVars>>
clientVars == <<retryOnStatus, resp, tcalls, nFail>>
marketVars == <<provCfg, fpc, fargs, fetchNow, start, end, data, err, fret,
               upstoxCalls, yahooCalls, yahooRet, ureq, yreq>>
vars == <<rlVars, now, callVars, retryVars, clientVars, marketVars>>

\* ------------------------------------------------------------ RateLimiter

\* NewRateLimiter: counts zero, resets one window ahead of the clock.
NewRateLimiter(rps, rpm, rph) ==
    /\ requestsPerSecond = rps
    /\ requestsPerMinute = rpm
    /\ requestsPerHour = rph
    /\ secCount = 0
    /\ minCount = 0
    /\ hrCount = 0
    /\ secReset = now + SecDur
    /\ minReset = now + MinDur
    /\ hrReset = now + HrDur
    /\ mu = 0

\* Variant: a window is reset as soon as the clock reaches resetAt.
After_Ge(t, u) == t >= u

\* time.Time.After
After(t, u) == t > u

\* Variant: one elapsed window resets all three windows together.
resetIfNeeded_Together(n) ==
    LET any == After(n, secReset) \/ After(n, minReset) \/ After(n, hrReset) IN
    [secCount |-> IF any THEN 0 ELSE secCount,
     secReset |-> IF any THEN n + SecDur ELSE secReset,
     minCount |-> IF any THEN 0 ELSE minCount,
     minReset |-> IF any THEN n + MinDur ELSE minReset,
     hrCount  |-> IF any THEN 0 ELSE hrCount,
     hrReset  |-> IF any THEN n + HrDur ELSE hrReset]

\* Variant: the next boundary is counted from the old boundary, not from now.
resetIfNeeded_FromOld(n) ==
    [secCount |-> IF After(n, secReset) THEN 0 ELSE secCount,
     secReset |-> IF After(n, secReset) THEN secReset + SecDur ELSE secReset,
     minCount |-> IF After(n, minReset) THEN 0 ELSE minCount,
     minReset |-> IF After(n, minReset) THEN minReset + MinDur ELSE minReset,
     hrCount  |-> IF After(n, hrReset) THEN 0 ELSE hrCount,
     hrReset  |-> IF After(n, hrReset) THEN hrReset + HrDur ELSE hrReset]

\* resetIfNeeded(now): the window fields after the three lazy resets.
resetIfNeeded(n) ==
    [secCount |-> IF After(n, secReset) THEN 0 ELSE secCount,
     secReset |-> IF After(n, secReset) THEN n + SecDur ELSE secReset,
     minCount |-> IF After(n, minReset) THEN 0 ELSE minCount,
     minReset |-> IF After(n, minReset) THEN n + MinDur ELSE minReset,
     hrCount  |-> IF After(n, hrReset) THEN 0 ELSE hrCount,
     hrReset  |-> IF After(n, hrReset) THEN n + HrDur ELSE hrReset]

\* Variant: the test admits a count equal to its ceiling.
Admits_Le(s, m, h) ==
    /\ s <= requestsPerSecond
    /\ m <= requestsPerMinute
    /\ h <= requestsPerHour

\* Variant: the test forgets the hour window.
Admits_NoHour(s, m, h) ==
    /\ s < requestsPerSecond
    /\ m < requestsPerMinute

\* The admission test at the end of canProceed.
Admits(s, m, h) ==
    /\ s < requestsPerSecond
    /\ m < requestsPerMinute
    /\ h < requestsPerHour

\* NewRetryer
NewRetryer(mr, bd, md) ==
    /\ maxRetries = mr
    /\ baseDelay = bd
    /\ maxDelay = md

\* No Wait call has started.
CallersInit ==
    /\ pc = [p \in Callers |-> "idle"]
    /\ ctx = [p \in Callers |-> "none"]
    /\ ret = [p \in Callers |-> "none"]
    /\ consumed = [p \in Callers |-> <<0, 0, 0>>]
    /\ overlap = FALSE

\* No Do call has started.
DoersInit ==
    /\ rpc = [d \in Doers |-> "idle"]
    /\ attempt = [d \in Doers |-> 0]
    /\ lastErr = [d \in Doers |-> NoErr]
    /\ delay = [d \in Doers |-> 0]
    /\ rctx = [d \in Doers |-> "none"]
    /\ rret = [d \in Doers |-> "none"]
    /\ calls = [d \in Doers |-> 0]
    /\ allRetry = [d \in Doers |-> TRUE]
    /\ lastFnErr = [d \in Doers |-> NoErr]
    /\ sleeps = [d \in Doers |-> 0]
    /\ earlier = FALSE

\* The response *http.Response(nil); a response received is numbered by
\* the transport call that produced it.
NoResp == [call |-> 0, status |-> 0, closed |-> FALSE]

\* No Client.Do call has started.
ClientIdle ==
    /\ resp = [d \in Doers |-> NoResp]
    /\ tcalls = [d \in Doers |-> 0]
    /\ nFail = [d \in Doers |-> 0]

\* time.Time as an instant and a location; the locations in play.
UTC == "UTC"
IST == "Asia/Kolkata"
\* The offset of Asia/Kolkata from UTC, in ticks.
KolkataOffset == 1
\* time.Time{}: the zero instant, in UTC.
ZeroTime == [inst |-> 0, loc |-> UTC]
\* A Provide call that has not returned.
NoResult == [data |-> <<>>, err |-> "none"]
\* A request that has not been built.
NoReq == [from |-> -1, to |-> -1]

\* RateLimitConfig in NewUpstoxProvider: per second, per minute, per hour.
NewUpstoxProvider == <<50, 500, 4000>>

\* RateLimitConfig in NewYahooProvider: per second, per minute, per hour.
NewYahooProvider == <<50, 500, 2000>>

\* NewMarketData builds the two providers; no Fetch call has started.
MarketIdle ==
    /\ provCfg = [upstox |-> NewUpstoxProvider, yahoo |-> NewYahooProvider]
    /\ fpc = "idle"
    /\ fargs = [start |-> ZeroTime, end |-> ZeroTime]
    /\ fetchNow = ZeroTime
    /\ start = ZeroTime
    /\ end = ZeroTime
    /\ data = NoResult.data
    /\ err = NoResult.err
    /\ fret = NoResult
    /\ upstoxCalls = 0
    /\ yahooCalls = 0
    /\ yahooRet = NoResult
    /\ ureq = NoReq
    /\ yreq = NoReq

\* A limiter with any ceilings, shared by the callers of Wait.
Init ==
    /\ now = 0
    /\ \E rps \in Limits, rpm \in Limits, rph \in Limits :
          NewRateLimiter(rps, rpm, rph)
    /\ CallersInit
    /\ NewRetryer(0, 0, 0)
    /\ DoersInit
    /\ retryOnStatus = {}
    /\ ClientIdle
    /\ MarketIdle

\* A caller invokes Wait(ctx); the context may have fired already.
WaitEnter(p) ==
    /\ pc[p] = "idle"
    /\ pc' = [pc EXCEPT ![p] = "top"]
    /\ \E c \in {"none"} \cup CtxErrs : ctx' = [ctx EXCEPT ![p] = c]
    /\ overlap' = (overlap \/ \E q \in Callers : pc[q] \notin {"idle", "done"})
    /\ UNCHANGED <<retryVars, clientVars, marketVars>>
    /\ UNCHANGED <<rlVars, now, ret, consumed>>

\* Variant: the loop does not look at ctx.Err() before canProceed.
CheckCtx_Skip(p) ==
    /\ pc[p] = "top"
    /\ mu = 0
    /\ mu' = p
    /\ pc' = [pc EXCEPT ![p] = "cpIn"]
    /\ UNCHANGED <<retryVars, clientVars, marketVars>>
    /\ UNCHANGED <<requestsPerSecond, requestsPerMinute, requestsPerHour,
                   secCount, minCount, hrCount, secReset, minReset, hrReset,
                   now, ctx, ret, consumed, overlap>>

\* Top of the loop: if err := ctx.Err(); err != nil { return err }
\* otherwise canProceed is entered and blocks in r.mu.Lock().
CheckCtx(p) ==
    /\ pc[p] = "top"
    /\ IF ctx[p] # "none"
       THEN /\ pc' = [pc EXCEPT ![p] = "done"]
            /\ ret' = [ret EXCEPT ![p] = ctx[p]]
            /\ UNCHANGED mu
       ELSE /\ mu = 0
            /\ mu' = p
            /\ pc' = [pc EXCEPT ![p] = "cpIn"]
            /\ UNCHANGED ret
    /\ UNCHANGED <<retryVars, clientVars, marketVars>>
    /\ UNCHANGED <<requestsPerSecond, requestsPerMinute, requestsPerHour,
                   secCount, minCount, hrCount, secReset, minReset, hrReset,
                   now, ctx, consumed, overlap>>

\* Variant: canProceed returns without releasing the mutex.
CanProceedBody_NoUnlock(p) ==
    /\ pc[p] = "cpIn"
    /\ mu = p
    /\ LET w == resetIfNeeded(now) IN
          /\ secCount' = w.secCount
          /\ secReset' = w.secReset
          /\ minCount' = w.minCount
          /\ minReset' = w.minReset
          /\ hrCount' = w.hrCount
          /\ hrReset' = w.hrReset
          /\ pc' = [pc EXCEPT ![p] =
                       IF Admits(w.secCount, w.minCount, w.hrCount)
                       THEN "incLock" ELSE "sleep"]
    /\ mu' = mu
    /\ UNCHANGED <<retryVars, clientVars, marketVars>>
    /\ UNCHANGED <<requestsPerSecond, requestsPerMinute, requestsPerHour,
                   now, ctx, ret, consumed, overlap>>

\* canProceed: read the clock, resetIfNeeded, evaluate the test, unlock
\* (deferred); Wait then goes on to increment() or to the poll sleep.
CanProceedBody(p) ==
    /\ pc[p] = "cpIn"
    /\ mu = p
    /\ LET w == resetIfNeeded(now) IN
          /\ secCount' = w.secCount
          /\ secReset' = w.secReset
          /\ minCount' = w.minCount
          /\ minReset' = w.minReset
          /\ hrCount' = w.hrCount
          /\ hrReset' = w.hrReset
          /\ pc' = [pc EXCEPT ![p] =
                       IF Admits(w.secCount, w.minCount, w.hrCount)
                       THEN "incLock" ELSE "sleep"]
    /\ mu' = 0
    /\ UNCHANGED <<retryVars, clientVars, marketVars>>
    /\ UNCHANGED <<requestsPerSecond, requestsPerMinute, requestsPerHour,
                   now, ctx, ret, consumed, overlap>>

\* increment: r.mu.Lock()
IncrementLock(p) ==
    /\ pc[p] = "incLock"
    /\ mu = 0
    /\ mu' = p
    /\ pc' = [pc EXCEPT ![p] = "incIn"]
    /\ UNCHANGED <<retryVars, clientVars, marketVars>>
    /\ UNCHANGED <<requestsPerSecond, requestsPerMinute, requestsPerHour,
                   secCount, minCount, hrCount, secReset, minReset, hrReset,
                   now, ctx, ret, consumed, overlap>>

\* Variant: the minute count is not incremented.
increment_NoMin ==
    [secCount |-> secCount + 1,
     minCount |-> minCount,
     hrCount  |-> hrCount + 1]

\* Variant: the second count is incremented twice.
increment_SecTwice ==
    [secCount |-> secCount + 2,
     minCount |-> minCount + 1,
     hrCount  |-> hrCount + 1]

\* increment: the counts after the three ++.
increment ==
    [secCount |-> secCount + 1,
     minCount |-> minCount + 1,
     hrCount  |-> hrCount + 1]

\* increment under the mutex, unlock (deferred); Wait returns nil.
IncrementBody(p) ==
    /\ pc[p] = "incIn"
    /\ mu = p
    /\ secCount' = increment.secCount
    /\ minCount' = increment.minCount
    /\ hrCount' = increment.hrCount
    /\ consumed' = [consumed EXCEPT ![p] =
                       <<@[1] + secCount' - secCount,
                         @[2] + minCount' - minCount,
                         @[3] + hrCount' - hrCount>>]
    /\ mu' = 0
    /\ pc' = [pc EXCEPT ![p] = "done"]
    /\ ret' = [ret EXCEPT ![p] = NoErr]
    /\ UNCHANGED <<retryVars, clientVars, marketVars>>
    /\ UNCHANGED <<requestsPerSecond, requestsPerMinute, requestsPerHour,
                   secReset, minReset, hrReset, now, ctx, overlap>>

\* select: case <-time.After(100 * time.Millisecond): loop again
SleepTimer(p) ==
    /\ pc[p] = "sleep"
    /\ pc' = [pc EXCEPT ![p] = "top"]
    /\ UNCHANGED <<retryVars, clientVars, marketVars>>
    /\ UNCHANGED <<rlVars, now, ctx, ret, consumed, overlap>>

\* Variant: an aborted wait always reports a missed deadline.
SleepCancel_Deadline(p) ==
    /\ pc[p] = "sleep"
    /\ ctx[p] # "none"
    /\ pc' = [pc EXCEPT ![p] = "done"]
    /\ ret' = [ret EXCEPT ![p] = "DeadlineExceeded"]
    /\ UNCHANGED <<retryVars, clientVars, marketVars>>
    /\ UNCHANGED <<rlVars, now, ctx, consumed, overlap>>

\* select: case <-ctx.Done(): return ctx.Err()
SleepCancel(p) ==
    /\ pc[p] = "sleep"
    /\ ctx[p] # "none"
    /\ pc' = [pc EXCEPT ![p] = "done"]
    /\ ret' = [ret EXCEPT ![p] = ctx[p]]
    /\ UNCHANGED <<retryVars, clientVars, marketVars>>
    /\ UNCHANGED <<rlVars, now, ctx, consumed, overlap>>

\* The caller's context fires during the call: cancel() or its deadline.
Cancel(p) ==
    /\ ctx[p] = "none"
    /\ pc[p] \notin {"idle", "done"}
    /\ \E e \in CtxErrs : ctx' = [ctx EXCEPT ![p] = e]
    /\ UNCHANGED <<retryVars, clientVars, marketVars>>
    /\ UNCHANGED <<rlVars, now, pc, ret, consumed, overlap>>

\* The clock advances.
Tick ==
    /\ now < MaxClock
    /\ now' = now + 1
    /\ UNCHANGED <<retryVars, clientVars, marketVars>>
    /\ UNCHANGED <<rlVars, callVars>>

WaitStep(p) ==
    \/ CheckCtx(p)
    \/ CanProceedBody(p)
    \/ IncrementLock(p)
    \/ IncrementBody(p)
    \/ SleepTimer(p)
    \/ SleepCancel(p)

Next ==
    \/ \E p \in Callers : WaitEnter(p)
    \/ \E p \in Callers : WaitStep(p)
    \/ \E p \in Callers : Cancel(p)
    \/ Tick

Spec == Init /\ [][Next]_vars

\* ------------------------------------------------ one Wait call at a time

\* A caller invokes Wait while no other call is in progress.
WaitEnterSeq(p) ==
    /\ \A q \in Callers : pc[q] \in {"idle", "done"}
    /\ WaitEnter(p)

SeqNext ==
    \/ \E p \in Callers : WaitEnterSeq(p)
    \/ \E p \in Callers : WaitStep(p)
    \/ \E p \in Callers : Cancel(p)
    \/ Tick

\* A call in progress keeps running: the mutex is granted, the poll timer
\* fires.  Nothing forces a context to fire or the clock to advance.
SeqSpec ==
    /\ Init
    /\ [][SeqNext]_vars
    /\ \A p \in Callers : WF_vars(WaitStep(p))

\* ---------------------------------------------------------------- Retryer

Min(a, b) == IF a < b THEN a ELSE b

\* Two's-complement wrap of x into the range of time.Duration.
WrapDur(x) ==
    LET m == x % DurMod IN IF m >= DurMod \div 2 THEN m - DurMod ELSE m

\* 1 << k as a time.Duration: the bit falls off at the width.
Shl1(k) == IF k >= DurBits THEN 0 ELSE WrapDur(2 ^ k)

\* calculateBackoff: min(baseDelay * (1 << attempt), maxDelay)
calculateBackoff(k) == Min(WrapDur(baseDelay * Shl1(k)), maxDelay)

\* The bound of "for attempt := range r.maxRetries + 1", in uint arithmetic.
LoopBound == (maxRetries + 1) % UintMod

\* Variant: the attempt counter outlives the call.
DoEnter_KeepAttempt(d) ==
    /\ rpc[d] \in {"idle", "done"}
    /\ rpc' = [rpc EXCEPT ![d] = "top"]
    /\ lastErr' = [lastErr EXCEPT ![d] = NoErr]
    /\ delay' = [delay EXCEPT ![d] = 0]
    /\ \E c \in {"none"} \cup CtxErrs : rctx' = [rctx EXCEPT ![d] = c]
    /\ rret' = [rret EXCEPT ![d] = "none"]
    /\ calls' = [calls EXCEPT ![d] = 0]
    /\ allRetry' = [allRetry EXCEPT ![d] = TRUE]
    /\ lastFnErr' = [lastFnErr EXCEPT ![d] = NoErr]
    /\ sleeps' = [sleeps EXCEPT ![d] = 0]
    /\ earlier' = (earlier \/ \E q \in Doers : rpc[q] = "done")
    /\ UNCHANGED <<marketVars, rlVars, now, callVars, clientVars, cfgVars, attempt>>

\* A doer invokes Do(ctx, fn); the context may have fired already.
DoEnter(d) ==
    /\ rpc[d] \in {"idle", "done"}
    /\ rpc' = [rpc EXCEPT ![d] = "top"]
    /\ attempt' = [attempt EXCEPT ![d] = 0]
    /\ lastErr' = [lastErr EXCEPT ![d] = NoErr]
    /\ delay' = [delay EXCEPT ![d] = 0]
    /\ \E c \in {"none"} \cup CtxErrs : rctx' = [rctx EXCEPT ![d] = c]
    /\ rret' = [rret EXCEPT ![d] = "none"]
    /\ calls' = [calls EXCEPT ![d] = 0]
    /\ allRetry' = [allRetry EXCEPT ![d] = TRUE]
    /\ lastFnErr' = [lastFnErr EXCEPT ![d] = NoErr]
    /\ sleeps' = [sleeps EXCEPT ![d] = 0]
    /\ earlier' = (earlier \/ \E q \in Doers : rpc[q] = "done")
    /\ UNCHANGED <<marketVars, rlVars, now, callVars, clientVars, cfgVars>>

\* Variant: a fired context is reported in place of the last result.
LoopExit_CtxFirst(d) ==
    /\ rpc[d] = "top"
    /\ attempt[d] = LoopBound
    /\ rpc' = [rpc EXCEPT ![d] = "done"]
    /\ rret' = [rret EXCEPT ![d] =
                    IF rctx[d] # "none" THEN rctx[d] ELSE lastErr[d]]
    /\ UNCHANGED <<marketVars, rlVars, now, callVars, clientVars, cfgVars,
                   attempt, lastErr, delay, rctx, calls, allRetry, lastFnErr,
                   sleeps, earlier>>

\* The range is exhausted: return lastErr
LoopExit(d) ==
    /\ rpc[d] = "top"
    /\ attempt[d] = LoopBound
    /\ rpc' = [rpc EXCEPT ![d] = "done"]
    /\ rret' = [rret EXCEPT ![d] = lastErr[d]]
    /\ UNCHANGED <<marketVars, rlVars, now, callVars, clientVars, cfgVars,
                   attempt, lastErr, delay, rctx, calls, allRetry, lastFnErr,
                   sleeps, earlier>>

\* Top of an iteration: if err := ctx.Err(); err != nil { return err }
CtxReturn(d) ==
    /\ rpc[d] = "top"
    /\ attempt[d] # LoopBound
    /\ rctx[d] # "none"
    /\ rpc' = [rpc EXCEPT ![d] = "done"]
    /\ rret' = [rret EXCEPT ![d] = rctx[d]]
    /\ UNCHANGED <<marketVars, rlVars, now, callVars, clientVars, cfgVars,
                   attempt, lastErr, delay, rctx, calls, allRetry, lastFnErr,
                   sleeps, earlier>>

\* Variant: the retry signal is read the wrong way round.
Stops_Inv(sr) == sr

\* if !shouldRetry { return err }
Stops(sr) == ~sr

\* Variant: a backoff sleep also follows the last permitted attempt.
SleepsAfter_Le(k) == k <= maxRetries

\* if attempt < r.maxRetries { ...sleep... }
SleepsAfter(k) == k < maxRetries

\* What Do does with the (sr, e) that fn() reported: !shouldRetry returns
\* err; otherwise lastErr = err and, if attempt < maxRetries, the backoff
\* is computed and the sleep begins.
FnResult(d, sr, e) ==
    /\ calls' = [calls EXCEPT ![d] = @ + 1]
    /\ allRetry' = [allRetry EXCEPT ![d] = @ /\ sr]
    /\ lastFnErr' = [lastFnErr EXCEPT ![d] = e]
    /\ IF Stops(sr)
       THEN /\ rpc' = [rpc EXCEPT ![d] = "done"]
            /\ rret' = [rret EXCEPT ![d] = e]
            /\ UNCHANGED <<attempt, lastErr, delay, sleeps>>
       ELSE /\ lastErr' = [lastErr EXCEPT ![d] = e]
            /\ UNCHANGED rret
            /\ IF SleepsAfter(attempt[d])
               THEN /\ delay' = [delay EXCEPT ![d] =
                                     calculateBackoff(attempt[d])]
                    /\ rpc' = [rpc EXCEPT ![d] = "sleep"]
                    /\ sleeps' = [sleeps EXCEPT ![d] = @ + 1]
                    /\ UNCHANGED attempt
               ELSE /\ attempt' = [attempt EXCEPT ![d] = @ + 1]
                    /\ rpc' = [rpc EXCEPT ![d] = "top"]
                    /\ UNCHANGED <<delay, sleeps>>
    /\ UNCHANGED <<cfgVars, rctx, earlier>>

\* An iteration from the call of fn up to the select: fn() reports any
\* (shouldRetry, err).
Attempt(d) ==
    /\ rpc[d] = "top"
    /\ attempt[d] # LoopBound
    /\ rctx[d] = "none"
    /\ \E sr \in BOOLEAN, e \in FnErrs : FnResult(d, sr, e)
    /\ UNCHANGED <<marketVars, rlVars, now, callVars, clientVars>>

\* Variant: the iteration after a sleep repeats the same attempt index.
BackoffTimer_NoAdvance(d) ==
    /\ rpc[d] = "sleep"
    /\ rpc' = [rpc EXCEPT ![d] = "top"]
    /\ UNCHANGED <<marketVars, rlVars, now, callVars, clientVars, cfgVars,
                   attempt, lastErr, delay, rctx, rret, calls, allRetry,
                   lastFnErr, sleeps, earlier>>

\* select: case <-time.After(delay): next iteration
BackoffTimer(d) ==
    /\ rpc[d] = "sleep"
    /\ rpc' = [rpc EXCEPT ![d] = "top"]
    /\ attempt' = [attempt EXCEPT ![d] = @ + 1]
    /\ UNCHANGED <<marketVars, rlVars, now, callVars, clientVars, cfgVars,
                   lastErr, delay, rctx, rret, calls, allRetry, lastFnErr,
                   sleeps, earlier>>

\* Variant: an aborted backoff reports the last attempt's error.
BackoffCancel_LastErr(d) ==
    /\ rpc[d] = "sleep"
    /\ rctx[d] # "none"
    /\ rpc' = [rpc EXCEPT ![d] = "done"]
    /\ rret' = [rret EXCEPT ![d] = lastErr[d]]
    /\ UNCHANGED <<marketVars, rlVars, now, callVars, clientVars, cfgVars,
                   attempt, lastErr, delay, rctx, calls, allRetry, lastFnErr,
                   sleeps, earlier>>

\* select: case <-ctx.Done(): return ctx.Err()
BackoffCancel(d) ==
    /\ rpc[d] = "sleep"
    /\ rctx[d] # "none"
    /\ rpc' = [rpc EXCEPT ![d] = "done"]
    /\ rret' = [rret EXCEPT ![d] = rctx[d]]
    /\ UNCHANGED <<marketVars, rlVars, now, callVars, clientVars, cfgVars,
                   attempt, lastErr, delay, rctx, calls, allRetry, lastFnErr,
                   sleeps, earlier>>

\* The doer's context fires during the call.
DoCancel(d) ==
    /\ rpc[d] \in {"top", "sleep"}
    /\ rctx[d] = "none"
    /\ \E e \in CtxErrs : rctx' = [rctx EXCEPT ![d] = e]
    /\ UNCHANGED <<marketVars, rlVars, now, callVars, clientVars, cfgVars,
                   rpc, attempt, lastErr, delay, rret, calls, allRetry, lastFnErr,
                   sleeps, earlier>>

\* A retryer with any configuration.
RetryInit ==
    /\ now = 0
    /\ NewRateLimiter(0, 0, 0)
    /\ CallersInit
    /\ \E mr \in RetryCounts, bd \in Durations, md \in Durations :
          NewRetryer(mr, bd, md)
    /\ DoersInit
    /\ retryOnStatus = {}
    /\ ClientIdle
    /\ MarketIdle

RetryNext ==
    \/ \E d \in Doers : DoEnter(d)
    \/ \E d \in Doers : LoopExit(d)
    \/ \E d \in Doers : CtxReturn(d)
    \/ \E d \in Doers : Attempt(d)
    \/ \E d \in Doers : BackoffTimer(d)
    \/ \E d \in Doers : BackoffCancel(d)
    \/ \E d \in Doers : DoCancel(d)

RetrySpec == RetryInit /\ [][RetryNext]_vars

\* ----------------------------------------------------------------- Client

\* Status codes the transport answers with, and the configured lists.
Statuses == {200, 500, 502}
RetryStatusSets == {{}, {500}, {500, 502}}
\* Errors of c.httpClient.Do.
TransportErrs == {"e1", "e2"}

\* Variant: an absent list means that every status is retried.
StatusRetryable_EmptyAll(s) == retryOnStatus = {} \/ s \in retryOnStatus

\* Variant: every 5xx status is retried, listed or not.
StatusRetryable_Any5xx(s) == s \in retryOnStatus \/ s >= 500

\* Variant: no status is ever retried.
StatusRetryable_None(s) == FALSE

\* if c.retryOnStatus != nil { for _, status := range c.retryOnStatus {
\*     if resp.StatusCode == int(status) { ... return true, nil } } }
StatusRetryable(s) == s \in retryOnStatus

\* Variant: a retried response is left open.
ClosesBody_Never(s) == FALSE

\* resp.Body.Close() in the branch of a listed status, and nowhere else.
ClosesBody(s) == StatusRetryable(s)

\* Variant: a transport failure ends the call.
TransportFailureRetries_No == FALSE

\* if err != nil { return true, err }
TransportFailureRetries == TRUE

\* Variant: a retried status is reported with an error of the client's own.
StatusRetryErr_Own == "e1"

\* return true, nil
StatusRetryErr == NoErr

\* Client.Do is entered: var resp, then c.retryer.Do(ctx, ...) with the
\* same context that the closure hands to c.limiter.Wait.
ClientDoEnter(d) ==
    /\ rpc[d] \in {"idle", "done"}
    /\ rpc' = [rpc EXCEPT ![d] = "top"]
    /\ attempt' = [attempt EXCEPT ![d] = 0]
    /\ lastErr' = [lastErr EXCEPT ![d] = NoErr]
    /\ delay' = [delay EXCEPT ![d] = 0]
    /\ \E c \in {"none"} \cup CtxErrs :
          /\ rctx' = [rctx EXCEPT ![d] = c]
          /\ ctx' = [ctx EXCEPT ![d] = c]
    /\ rret' = [rret EXCEPT ![d] = "none"]
    /\ calls' = [calls EXCEPT ![d] = 0]
    /\ allRetry' = [allRetry EXCEPT ![d] = TRUE]
    /\ lastFnErr' = [lastFnErr EXCEPT ![d] = NoErr]
    /\ sleeps' = [sleeps EXCEPT ![d] = 0]
    /\ earlier' = (earlier \/ \E q \in Doers : rpc[q] = "done")
    /\ resp' = [resp EXCEPT ![d] = NoResp]
    /\ tcalls' = [tcalls EXCEPT ![d] = 0]
    /\ nFail' = [nFail EXCEPT ![d] = 0]
    /\ pc' = [pc EXCEPT ![d] = "idle"]
    /\ ret' = [ret EXCEPT ![d] = "none"]
    /\ consumed' = [consumed EXCEPT ![d] = <<0, 0, 0>>]
    /\ UNCHANGED <<marketVars, rlVars, now, overlap, cfgVars, retryOnStatus>>

\* Variant: the closure goes to the transport without asking the limiter.
ClientFnBegin_NoWait(d) ==
    /\ rpc[d] = "top"
    /\ attempt[d] # LoopBound
    /\ rctx[d] = "none"
    /\ rpc' = [rpc EXCEPT ![d] = "fn"]
    /\ pc' = [pc EXCEPT ![d] = "done"]
    /\ ret' = [ret EXCEPT ![d] = NoErr]
    /\ UNCHANGED <<marketVars, rlVars, now, ctx, consumed, overlap, cfgVars,
                   attempt, lastErr, delay, rctx, rret, calls, allRetry,
                   lastFnErr, sleeps, earlier, clientVars>>

\* An iteration of the retry loop passes ctx.Err() and calls the closure,
\* which enters c.limiter.Wait(ctx).
ClientFnBegin(d) ==
    /\ rpc[d] = "top"
    /\ attempt[d] # LoopBound
    /\ rctx[d] = "none"
    /\ rpc' = [rpc EXCEPT ![d] = "fn"]
    /\ pc' = [pc EXCEPT ![d] = "top"]
    /\ ret' = [ret EXCEPT ![d] = "none"]
    /\ UNCHANGED <<marketVars, rlVars, now, ctx, consumed, overlap, cfgVars,
                   attempt, lastErr, delay, rctx, rret, calls, allRetry,
                   lastFnErr, sleeps, earlier, clientVars>>

\* A step of the Wait call made by the closure.
ClientWaitStep(d) ==
    /\ rpc[d] = "fn"
    /\ WaitStep(d)

\* Variant: Wait's error is replaced by one of the client's own.
ClientWaitFailed_Wrapped(d) ==
    /\ rpc[d] = "fn"
    /\ pc[d] = "done"
    /\ ret[d] # NoErr
    /\ FnResult(d, FALSE, "wrapped")
    /\ UNCHANGED <<marketVars, rlVars, now, callVars, clientVars>>

\* if err := c.limiter.Wait(ctx); err != nil { return false, err }
ClientWaitFailed(d) ==
    /\ rpc[d] = "fn"
    /\ pc[d] = "done"
    /\ ret[d] # NoErr
    /\ FnResult(d, FALSE, ret[d])
    /\ UNCHANGED <<marketVars, rlVars, now, callVars, clientVars>>

\* Variant: resp is a field of the client, shared by every Do call.
ClientTransport_SharedResp(d) ==
    /\ rpc[d] = "fn"
    /\ pc[d] = "done"
    /\ ret[d] = NoErr
    /\ tcalls' = [tcalls EXCEPT ![d] = @ + 1]
    /\ \/ \E e \in TransportErrs :
            /\ resp' = [q \in DOMAIN resp |-> NoResp]
            /\ nFail' = [nFail EXCEPT ![d] = @ + 1]
            /\ FnResult(d, TransportFailureRetries, e)
       \/ \E s \in Statuses :
            /\ resp' = [q \in DOMAIN resp |->
                           [call |-> tcalls[d] + 1, status |-> s,
                            closed |-> ClosesBody(s)]]
            /\ UNCHANGED nFail
            /\ FnResult(d, StatusRetryable(s),
                           IF StatusRetryable(s) THEN StatusRetryErr ELSE NoErr)
    /\ UNCHANGED <<marketVars, rlVars, now, callVars, retryOnStatus>>

\* resp, err = c.httpClient.Do(req) after Wait returned nil, and what the
\* closure reports for it: a transport failure leaves no response; a
\* response with a listed status is closed and retried; any other
\* response ends the call.
ClientTransport(d) ==
    /\ rpc[d] = "fn"
    /\ pc[d] = "done"
    /\ ret[d] = NoErr
    /\ tcalls' = [tcalls EXCEPT ![d] = @ + 1]
    /\ \/ \E e \in TransportErrs :
            /\ resp' = [resp EXCEPT ![d] = NoResp]
            /\ nFail' = [nFail EXCEPT ![d] = @ + 1]
            /\ FnResult(d, TransportFailureRetries, e)
       \/ \E s \in Statuses :
            /\ resp' = [resp EXCEPT ![d] =
                           [call |-> tcalls[d] + 1, status |-> s,
                            closed |-> ClosesBody(s)]]
            /\ UNCHANGED nFail
            /\ FnResult(d, StatusRetryable(s),
                           IF StatusRetryable(s) THEN StatusRetryErr ELSE NoErr)
    /\ UNCHANGED <<marketVars, rlVars, now, callVars, retryOnStatus>>

\* The context of the call fires: the retry loop and Wait see the same one.
ClientCancel(d) ==
    /\ rpc[d] \in {"top", "fn", "sleep"}
    /\ rctx[d] = "none"
    /\ \E e \in CtxErrs :
          /\ rctx' = [rctx EXCEPT ![d] = e]
          /\ ctx' = [ctx EXCEPT ![d] = e]
    /\ UNCHANGED <<marketVars, rlVars, now, pc, ret, consumed, overlap, cfgVars,
                   rpc, attempt, lastErr, delay, rret, calls, allRetry,
                   lastFnErr, sleeps, earlier, clientVars>>

\* NewClient: a limiter, a retryer and a status list; the limiter's three
\* ceilings are taken equal, the backoff delays fixed.
ClientInit ==
    /\ now = 0
    /\ \E l \in Limits : NewRateLimiter(l, l, l)
    /\ CallersInit
    /\ \E mr \in RetryCounts : NewRetryer(mr, SecDur, HrDur)
    /\ DoersInit
    /\ retryOnStatus \in RetryStatusSets
    /\ ClientIdle
    /\ MarketIdle

\* One goroutine uses the client, one Do call after the other.
ClientDoEnterSolo(d) ==
    /\ \A q \in Doers \ {d} : rpc[q] = "idle"
    /\ ClientDoEnter(d)

ClientNext ==
    \/ \E d \in Doers : ClientDoEnterSolo(d)
    \/ \E d \in Doers : LoopExit(d)
    \/ \E d \in Doers : CtxReturn(d)
    \/ \E d \in Doers : ClientFnBegin(d)
    \/ \E d \in Doers : ClientWaitStep(d)
    \/ \E d \in Doers : ClientWaitFailed(d)
    \/ \E d \in Doers : ClientTransport(d)
    \/ \E d \in Doers : BackoffTimer(d)
    \/ \E d \in Doers : BackoffCancel(d)
    \/ \E d \in Doers : ClientCancel(d)
    \/ Tick

ClientSpec == ClientInit /\ [][ClientNext]_vars

\* A step of the goroutine running Client.Do: the retry loop, the closure,
\* the Wait inside it, the transport's answer, the backoff timer or the
\* context's Done channel.
ClientStep(d) ==
    \/ LoopExit(d)
    \/ CtxReturn(d)
    \/ ClientFnBegin(d)
    \/ ClientWaitStep(d)
    \/ ClientWaitFailed(d)
    \/ ClientTransport(d)
    \/ BackoffTimer(d)
    \/ BackoffCancel(d)

\* One Do call on a newly constructed client.
ClientDoEnterOnce(d) ==
    /\ \A q \in Doers : rpc[q] = "idle"
    /\ ClientDoEnter(d)

\* The call observes the clock only through time.Now() inside canProceed:
\* the clock advances while a check is about to read it.
TickAtCheck ==
    /\ \E d \in Doers : rpc[d] = "fn" /\ pc[d] = "cpIn"
    /\ Tick

ClientLiveNext ==
    \/ \E d \in Doers : ClientDoEnterOnce(d)
    \/ \E d \in Doers : ClientStep(d)
    \/ \E d \in Doers : ClientCancel(d)
    \/ TickAtCheck

\* The scheduler runs every goroutine that can take a step, the transport
\* answers every request and every timer fires; nothing obliges the
\* context to fire or the clock to advance.
ClientLiveSpec ==
    /\ ClientInit
    /\ [][ClientLiveNext]_vars
    /\ \A d \in Doers : WF_vars(ClientStep(d))

\* Two goroutines call Do on one client at the same time.
Sharers == {1, 2}

\* NewClient with at most one retry, and no Do call started by either
\* goroutine.
ConcClientInit ==
    /\ now = 0
    /\ \E l \in Limits : NewRateLimiter(l, l, l)
    /\ CallersInit
    /\ \E mr \in {r \in RetryCounts : r <= 1} : NewRetryer(mr, SecDur, HrDur)
    /\ rpc = [d \in Sharers |-> "idle"]
    /\ attempt = [d \in Sharers |-> 0]
    /\ lastErr = [d \in Sharers |-> NoErr]
    /\ delay = [d \in Sharers |-> 0]
    /\ rctx = [d \in Sharers |-> "none"]
    /\ rret = [d \in Sharers |-> "none"]
    /\ calls = [d \in Sharers |-> 0]
    /\ allRetry = [d \in Sharers |-> TRUE]
    /\ lastFnErr = [d \in Sharers |-> NoErr]
    /\ sleeps = [d \in Sharers |-> 0]
    /\ earlier = FALSE
    /\ resp = [d \in Sharers |-> NoResp]
    /\ tcalls = [d \in Sharers |-> 0]
    /\ nFail = [d \in Sharers |-> 0]
    /\ retryOnStatus \in RetryStatusSets
    /\ MarketIdle

\* Each goroutine makes one Do call; the clock stands still meanwhile.
ClientDoEnterFirst(d) ==
    /\ rpc[d] = "idle"
    /\ ClientDoEnter(d)

ConcClientNext ==
    \/ \E d \in Sharers : ClientDoEnterFirst(d)
    \/ \E d \in Sharers : ClientStep(d)
    \/ \E d \in Sharers : ClientCancel(d)

ConcClientSpec == ConcClientInit /\ [][ConcClientNext]_vars

\* ------------------------------------------------------------- MarketData

\* Instants on the clock, besides the zero instant of time.Time{}.
Instants == 1..MaxClock
\* The time.Time values a caller passes: the zero value and any instant in
\* either location.
Times == {ZeroTime} \cup [inst : Instants, loc : {UTC, IST}]
\* What a provider returns: candles (none, some) and an error or nil.
Datas == {<<>>, <<"c1">>, <<"c1", "c2">>}
ProviderErrs == {"nil", "perr"}
Results == [data : Datas, err : ProviderErrs]

\* Time.IsZero: the instant is the zero instant, whatever the location.
IsZero(t) == t.inst = ZeroTime.inst
\* Time.In: the same instant seen in another location.
In(t, l) == [inst |-> t.inst, loc |-> l]
\* Time.Unix
Unix(t) == t.inst
Offset(l) == IF l = IST THEN KolkataOffset ELSE 0
\* Year, Month and Day of t in its location, as a day number; it is also
\* what Format("2006-01-02") prints.
DateOf(t) == (t.inst + Offset(t.loc)) \div DayLen
\* time.Date(y, m, d, 0, 0, 0, 0, loc) for the day number dn.
Date(dn, l) == [inst |-> dn * DayLen - Offset(l), loc |-> l]

\* Variant: today's start is taken as midnight UTC.
DefaultStart_UTC(n) == Date(DateOf(n), UTC)

\* start = time.Date(now.Year(), now.Month(), now.Day(), 0, 0, 0, 0, loc)
DefaultStart(n) == Date(DateOf(n), IST)

\* Variant: the calendar days are compared in UTC.
OnCurrentDay_UTC(s, n) == DateOf(In(s, UTC)) = DateOf(In(n, UTC))

\* start.Year() == now.Year() && start.Month() == now.Month() &&
\* start.Day() == now.Day()
OnCurrentDay(s, n) == DateOf(s) = DateOf(n)

\* Variant: an empty result of Upstox is returned as it is.
NeedsFallback_ErrOnly(d, e) == e # "nil"

\* if err != nil || len(data) == 0
NeedsFallback(d, e) == e # "nil" \/ Len(d) = 0

\* YahooProvider.Provide: period1 and period2 of the URL.
YahooRequest(from, to) ==
    [from |-> Unix(from),
     to |-> IF IsZero(to) THEN Unix(from) ELSE Unix(to)]

\* UpstoxProvider.Provide: the to-date and from-date of the URL (no
\* from-date for a zero from).
UpstoxRequest(from, to) ==
    [from |-> IF IsZero(from) THEN NoReq.from ELSE DateOf(from),
     to |-> DateOf(to)]

\* Fetch is entered: now is read in Asia/Kolkata, start and end are
\* defaulted or moved to that location.
FetchEnter(s, e) ==
    /\ fpc \in {"idle", "done"}
    /\ fargs' = [start |-> s, end |-> e]
    /\ fetchNow' = [inst |-> now, loc |-> IST]
    /\ start' = IF IsZero(s) THEN DefaultStart(fetchNow') ELSE In(s, IST)
    /\ end' = IF ~IsZero(e) THEN In(e, IST) ELSE e
    /\ fpc' = "route"
    /\ data' = NoResult.data
    /\ err' = NoResult.err
    /\ fret' = NoResult
    /\ upstoxCalls' = 0
    /\ yahooCalls' = 0
    /\ yahooRet' = NoResult
    /\ ureq' = NoReq
    /\ yreq' = NoReq
    /\ UNCHANGED <<rlVars, now, callVars, retryVars, clientVars, provCfg>>

\* m.yahoo.Provide(ctx, symbol, m.exchange, interval, start, end) is called.
CallYahoo ==
    /\ fpc' = "yahoo"
    /\ yahooCalls' = yahooCalls + 1
    /\ yreq' = YahooRequest(start, end)

\* The routing: a start on the current day goes to Yahoo, any other to
\* Upstox.
FetchRoute ==
    /\ fpc = "route"
    /\ IF OnCurrentDay(start, fetchNow)
       THEN /\ CallYahoo
            /\ UNCHANGED <<upstoxCalls, ureq>>
       ELSE /\ fpc' = "upstox"
            /\ upstoxCalls' = upstoxCalls + 1
            /\ ureq' = UpstoxRequest(start, end)
            /\ UNCHANGED <<yahooCalls, yreq>>
    /\ UNCHANGED <<rlVars, now, callVars, retryVars, clientVars, provCfg,
                   fargs, fetchNow, start, end, data, err, fret, yahooRet>>

\* m.upstox.Provide returns: its data is returned, or Yahoo is called.
UpstoxReturns(r) ==
    /\ fpc = "upstox"
    /\ data' = r.data
    /\ err' = r.err
    /\ IF NeedsFallback(r.data, r.err)
       THEN /\ CallYahoo
            /\ UNCHANGED fret
       ELSE /\ fpc' = "done"
            /\ fret' = [data |-> r.data, err |-> "nil"]
            /\ UNCHANGED <<yahooCalls, yreq>>
    /\ UNCHANGED <<rlVars, now, callVars, retryVars, clientVars, provCfg,
                   fargs, fetchNow, start, end, upstoxCalls, yahooRet, ureq>>

\* m.yahoo.Provide returns: Fetch returns what it returned.
YahooReturns(r) ==
    /\ fpc = "yahoo"
    /\ yahooRet' = r
    /\ fret' = r
    /\ fpc' = "done"
    /\ UNCHANGED <<rlVars, now, callVars, retryVars, clientVars, provCfg,
                   fargs, fetchNow, start, end, data, err,
                   upstoxCalls, yahooCalls, ureq, yreq>>

\* NewMarketData, on a day of the clock that is not the zero instant's.
MarketInit ==
    /\ now \in DayLen..MaxClock
    /\ NewRateLimiter(0, 0, 0)
    /\ CallersInit
    /\ NewRetryer(0, 0, 0)
    /\ DoersInit
    /\ retryOnStatus = {}
    /\ ClientIdle
    /\ MarketIdle

MarketNext ==
    \/ \E s \in Times, e \in Times : FetchEnter(s, e)
    \/ FetchRoute
    \/ \E r \in Results : UpstoxReturns(r)
    \/ \E r \in Results : YahooReturns(r)
    \/ Tick

MarketSpec == MarketInit /\ [][MarketNext]_vars

\* ------------------------------------------------------------ properties

InWait(p) == pc[p] \notin {"idle", "done"}
Started == {p \in Callers : pc[p] # "idle"}
Returned == {p \in Callers : pc[p] = "done"}
\* No window has been reset since construction (the clock starts at 0).
NoResetYet == secReset = SecDur /\ minReset = MinDur /\ hrReset = HrDur
Headroom(k) ==
    requestsPerSecond >= k /\ requestsPerMinute >= k /\ requestsPerHour >= k

\* C1: under every interleaving of concurrent Wait calls no window count
\* exceeds its ceiling.
C1_NoOverAdmission ==
    /\ secCount <= requestsPerSecond
    /\ minCount <= requestsPerMinute
    /\ hrCount <= requestsPerHour

\* C2: with ceilings at least the number K of calls started, no context
\* fired and no window reset, no call is ever refused or fails, and the
\* three counts equal the number of calls that have returned: K once all
\* K have returned.
C2_ExactCounts ==
    ((\A p \in Callers : ctx[p] = "none")
        /\ NoResetYet /\ Headroom(Cardinality(Started)))
    => /\ \A p \in Started : pc[p] # "sleep" /\ ret[p] \in {"none", NoErr}
       /\ secCount = Cardinality(Returned)
       /\ minCount = Cardinality(Returned)
       /\ hrCount = Cardinality(Returned)

\* All callers ran concurrently, all returned success, counts equal K.
C2_Witness ==
    /\ overlap
    /\ \A p \in Callers : pc[p] = "done" /\ ret[p] = NoErr /\ ctx[p] = "none"
    /\ NoResetYet
    /\ Headroom(NumCallers)
    /\ secCount = NumCallers /\ minCount = NumCallers /\ hrCount = NumCallers

AllBelow ==
    /\ secCount < requestsPerSecond
    /\ minCount < requestsPerMinute
    /\ hrCount < requestsPerHour

\* C3: with one Wait call at a time, a call is between a successful
\* canProceed and its increment only while all three counts are strictly
\* below their ceilings, and canProceed returns true exactly when, after
\* the lazy resets, all three are.
C3_AdmitOnlyBelowAll ==
    /\ [](\A p \in Callers : pc[p] \in {"incLock", "incIn"} => AllBelow)
    /\ [][\A p \in Callers :
            (pc[p] = "cpIn" /\ pc'[p] # "cpIn")
            => /\ pc'[p] \in {"incLock", "sleep"}
               /\ (pc'[p] = "incLock") <=> AllBelow']_vars

\* A call is refused by the hour window alone.
C3_Witness ==
    \E p \in Callers :
        /\ pc[p] = "sleep"
        /\ ~overlap
        /\ hrCount = requestsPerHour
        /\ secCount < requestsPerSecond
        /\ minCount < requestsPerMinute

\* C4: a Wait call that returned nil has added exactly one to each of the
\* three counts, a Wait call that returned an error has added nothing.
C4_ConsumesOneOrNone ==
    \A p \in Callers :
        pc[p] = "done" =>
            consumed[p] = (IF ret[p] = NoErr THEN <<1, 1, 1>> ELSE <<0, 0, 0>>)

\* One call returned success and another an error.
C4_Witness ==
    \E p, q \in Callers :
        /\ pc[p] = "done" /\ ret[p] = NoErr
        /\ pc[q] = "done" /\ ret[q] \in CtxErrs
        /\ overlap

AnyZero ==
    requestsPerSecond = 0 \/ requestsPerMinute = 0 \/ requestsPerHour = 0

\* C5: with a ceiling of 0 no Wait call is admitted or returns nil; a call
\* that has returned returned its context's error, after the context fired.
C5_ZeroNeverAdmits ==
    AnyZero =>
        \A p \in Callers :
            /\ pc[p] \notin {"incLock", "incIn"}
            /\ ret[p] # NoErr
            /\ consumed[p] = <<0, 0, 0>>
            /\ pc[p] = "done" => (ret[p] = ctx[p] /\ ctx[p] \in CtxErrs)

\* Only the minute ceiling is 0; a call gave up after windows were reset.
C5_Witness ==
    /\ requestsPerMinute = 0
    /\ requestsPerSecond > 0 /\ requestsPerHour > 0
    /\ secReset > SecDur /\ minReset > MinDur
    /\ \E p \in Callers : pc[p] = "done" /\ ret[p] = "DeadlineExceeded"

\* C6: with one call at a time and the second window full, canProceed
\* refuses while the clock is not past secReset; once the clock is past
\* secReset and the minute and hour windows have room, a waiting call
\* whose context does not fire is eventually admitted.
C6_BlockedUntilSecondPasses ==
    /\ [][\A p \in Callers :
            (pc[p] = "cpIn" /\ secCount >= requestsPerSecond
                /\ ~(now > secReset))
            => pc'[p] \in {"cpIn", "sleep"}]_vars
    /\ \A p \in Callers :
          (InWait(p) /\ requestsPerSecond >= 1 /\ now > secReset
              /\ minCount < requestsPerMinute /\ hrCount < requestsPerHour)
          ~> (ret[p] = NoErr \/ ctx[p] # "none")

\* The (N+1)th call was admitted in a fresh second window: the hour
\* window has counted N+1 admissions, the second window one.
C6_Witness ==
    /\ requestsPerSecond >= 1
    /\ hrCount = requestsPerSecond + 1
    /\ secCount = 1
    /\ secReset > SecDur
    /\ \A p \in Callers : ctx[p] = "none"
    /\ \E p \in Callers : pc[p] = "done" /\ ret[p] = NoErr

\* C7: the only error Wait returns is its context's error, and only once
\* the context has fired.
C7_OnlyCtxError ==
    \A p \in Callers :
        /\ ret[p] \in {"none", NoErr} \cup CtxErrs
        /\ (pc[p] = "done") <=> (ret[p] # "none")
        /\ ret[p] \in CtxErrs => ret[p] = ctx[p]

\* A call refused for lack of capacity ended with DeadlineExceeded.
C7_Witness ==
    \E p \in Callers :
        /\ pc[p] = "done" /\ ret[p] = "DeadlineExceeded"
        /\ requestsPerSecond >= 1 /\ requestsPerMinute >= 1
        /\ requestsPerHour >= 1
        /\ ~AllBelow

\* C8: a caller at the top of a poll iteration whose context has fired
\* returns that error as its next step, is not admitted and changes no
\* count, whatever capacity the windows have.
C8_FiredCtxWins ==
    [][\A p \in Callers :
          (pc[p] = "top" /\ ctx[p] # "none" /\ pc'[p] # "top")
          => /\ pc'[p] = "done"
             /\ ret'[p] = ctx[p]
             /\ consumed'[p] = <<0, 0, 0>>
             /\ <<secCount, minCount, hrCount>>' = <<secCount, minCount, hrCount>>]_vars

\* A call returned Canceled although no admission was ever made and every
\* window had room: it was entered with a fired context.
C8_Witness ==
    \E p \in Callers :
        /\ pc[p] = "done" /\ ret[p] = "Canceled"
        /\ NoResetYet
        /\ secCount = 0 /\ minCount = 0 /\ hrCount = 0
        /\ Headroom(1)

\* C9: a Do call that has returned, whose context never fired and whose
\* attempts all reported shouldRetry = true, invoked the attempt function
\* exactly maxRetries + 1 times and returned the last invocation's error.
C9_ExactlyRPlusOneAttempts ==
    \A d \in Doers :
        (rpc[d] = "done" /\ rctx[d] = "none" /\ allRetry[d])
        => /\ calls[d] = maxRetries + 1
           /\ rret[d] = lastFnErr[d]

\* C10: once an invocation of the attempt function has reported
\* shouldRetry = false the call has returned that invocation's err: it is
\* neither sleeping nor about to invoke the function again.
C10_StopOnNoRetry ==
    \A d \in Doers :
        (calls[d] > 0 /\ ~allRetry[d])
        => /\ rpc[d] = "done"
           /\ rret[d] = lastFnErr[d]

\* The second invocation reported (false, e1) after a backoff sleep.
C10_Witness ==
    \E d \in Doers :
        /\ rpc[d] = "done"
        /\ calls[d] = 2
        /\ ~allRetry[d]
        /\ rret[d] = "e1"
        /\ lastErr[d] = "e2"

\* C11: the delay computed for attempt k is min(baseDelay * 2^k, maxDelay),
\* the product taken over the integers.
C11_BackoffIsMinOfProduct ==
    \A d \in Doers :
        rpc[d] = "sleep" =>
            delay[d] = Min(baseDelay * (2 ^ attempt[d]), maxDelay)

\* C12: a doer at the top of an iteration whose context has fired returns
\* the context's error as its next step without invoking fn; a call that
\* has returned with a fired context and no invocation of fn returned the
\* context's error.
C12_FiredBeforeAttempt ==
    /\ [](\A d \in Doers :
            (rpc[d] = "done" /\ rctx[d] # "none" /\ calls[d] = 0)
            => rret[d] = rctx[d])
    /\ [][\A d \in Doers :
            (rpc[d] = "top" /\ attempt[d] # LoopBound /\ rctx[d] # "none"
                /\ rpc'[d] # "top")
            => /\ rpc'[d] = "done"
               /\ rret'[d] = rctx[d]
               /\ calls'[d] = calls[d]]_vars

\* C13: once the context has fired during a backoff sleep, fn is not
\* invoked again and the call returns the context's error: from the
\* select itself, or from the top of the next iteration when the timer
\* won the race.
C13_CancelDuringBackoff ==
    [][\A d \in Doers :
          (rctx[d] # "none"
              /\ \/ rpc[d] = "sleep"
                 \/ rpc[d] = "top" /\ attempt[d] >= 1 /\ attempt[d] # LoopBound)
          => /\ calls'[d] = calls[d]
             /\ rpc'[d] \in {rpc[d], "top", "done"}
             /\ rpc'[d] = "top" => attempt'[d] # LoopBound
             /\ rpc'[d] = "done" => rret'[d] = rctx[d]]_vars

\* The call returned Canceled out of its first backoff sleep, not the
\* error e1 of the attempt before it.
C13_Witness ==
    \E d \in Doers :
        /\ rpc[d] = "done"
        /\ rret[d] = "Canceled"
        /\ calls[d] = 1 /\ sleeps[d] = 1 /\ attempt[d] = 0
        /\ lastErr[d] = "e1"

\* C14: a doer sleeps only after an attempt of index below maxRetries
\* that reported shouldRetry = true; a call begins at most maxRetries
\* sleeps, and with maxRetries = 0 none, after its single attempt.
C14_SleepOnlyBeforeRetry ==
    \A d \in Doers :
        /\ rpc[d] = "sleep" =>
              (attempt[d] < maxRetries /\ allRetry[d]
                  /\ calls[d] = attempt[d] + 1)
        /\ sleeps[d] <= maxRetries
        /\ sleeps[d] <= calls[d]
        /\ (rpc[d] = "done" /\ rret[d] \notin CtxErrs /\ calls[d] > 0)
              => sleeps[d] = calls[d] - 1
        /\ maxRetries = 0 =>
              /\ sleeps[d] = 0
              /\ calls[d] <= 1
              /\ (rpc[d] = "done" /\ rret[d] \notin CtxErrs) => calls[d] = 1

\* All maxRetries + 1 attempts were made, with maxRetries sleeps between.
C14_Witness ==
    \E d \in Doers :
        /\ maxRetries >= 1
        /\ rpc[d] = "done"
        /\ rctx[d] = "none"
        /\ allRetry[d]
        /\ calls[d] = maxRetries + 1
        /\ sleeps[d] = maxRetries

DoLocals(d) ==
    <<rpc[d], attempt[d], lastErr[d], delay[d], rctx[d], rret[d], calls[d]>>

Answered(d) == tcalls[d] >= 1 /\ resp[d].call = tcalls[d]
\* The loop of d has run out of attempts and is about to return lastErr.
Exhausted(d) == rpc[d] = "top" /\ attempt[d] = LoopBound

\* C16: with no cancellation, once the transport has answered j attempts
\* (j <= maxRetries) with listed statuses and the next with an unlisted
\* one, the call has returned that response with a nil error after
\* exactly j + 1 transport calls; while the answers are listed statuses
\* and budget remains, the call has not returned.
C16_RetryOnStatusThenSuccess ==
    \A d \in Doers :
        (rctx[d] = "none" /\ nFail[d] = 0 /\ Answered(d))
        => IF resp[d].status \in retryOnStatus
           THEN tcalls[d] <= maxRetries => rpc[d] \in {"sleep", "top", "fn"}
           ELSE /\ rpc[d] = "done"
                /\ rret[d] = NoErr
                /\ resp[d].call = tcalls[d]
                /\ tcalls[d] <= maxRetries + 1
                /\ calls[d] = tcalls[d]
                /\ sleeps[d] = tcalls[d] - 1

\* 500, 500, 200: three transport calls and a final 200 with no error.
C16_Witness ==
    \E d \in Doers :
        /\ rpc[d] = "done"
        /\ rctx[d] = "none"
        /\ nFail[d] = 0
        /\ tcalls[d] = 3
        /\ resp[d] = [call |-> 3, status |-> 200, closed |-> FALSE]
        /\ retryOnStatus = {500, 502}
        /\ rret[d] = NoErr

\* C17: an attempt whose Wait failed made no transport call and ended the
\* call with Wait's error, without a sleep; a call on a client whose
\* three ceilings are 0, under a context that can only miss its deadline,
\* returns DeadlineExceeded after zero transport calls.
C17_WaitFailureEndsCall ==
    \A d \in Doers :
        /\ (rpc[d] # "fn" /\ calls[d] >= 1 /\ pc[d] = "done"
                /\ ret[d] # NoErr)
           => /\ rpc[d] = "done"
              /\ rret[d] = ret[d]
              /\ tcalls[d] = calls[d] - 1
              /\ sleeps[d] = calls[d] - 1
        /\ (requestsPerSecond = 0 /\ requestsPerMinute = 0
                /\ requestsPerHour = 0 /\ rpc[d] = "done"
                /\ rctx[d] # "Canceled")
           => /\ rret[d] = "DeadlineExceeded"
              /\ tcalls[d] = 0

\* C18: with no cancellation, a call whose latest attempt ended in a
\* transport failure has not returned while fewer than maxRetries + 1
\* attempts were made; no call makes more than maxRetries + 1 transport
\* calls; once maxRetries + 1 transport calls have all failed the call
\* returns the error of the last of them.
C18_TransportFailureRetried ==
    \A d \in Doers :
        /\ (rctx[d] = "none" /\ lastFnErr[d] \in TransportErrs
                /\ calls[d] <= maxRetries)
           => rpc[d] \in {"sleep", "top", "fn"}
        /\ nFail[d] <= maxRetries + 1
        /\ (rctx[d] = "none" /\ nFail[d] = maxRetries + 1)
           => /\ tcalls[d] = maxRetries + 1
              /\ Exhausted(d) \/ rpc[d] = "done"
              /\ rpc[d] = "done" =>
                    (rret[d] = lastFnErr[d] /\ rret[d] \in TransportErrs)

\* All maxRetries + 1 transport calls failed; the call returned e2.
C18_Witness ==
    \E d \in Doers :
        /\ maxRetries >= 1
        /\ rpc[d] = "done"
        /\ rctx[d] = "none"
        /\ nFail[d] = maxRetries + 1
        /\ tcalls[d] = maxRetries + 1
        /\ rret[d] = "e2"

\* C19: with no cancellation, once maxRetries + 1 transport calls have
\* all been answered with listed statuses no further call is made and the
\* call returns the last response with a nil error.
C19_StatusExhaustionNoError ==
    \A d \in Doers :
        /\ tcalls[d] <= maxRetries + 1
        /\ (rctx[d] = "none" /\ nFail[d] = 0 /\ allRetry[d]
                /\ tcalls[d] = maxRetries + 1)
           => /\ Exhausted(d) \/ rpc[d] = "done"
              /\ resp[d].call = maxRetries + 1
              /\ resp[d].status \in retryOnStatus
              /\ rpc[d] = "done" => rret[d] = NoErr

\* Every attempt was answered 500; the call returned the last response
\* and no error.
C19_Witness ==
    \E d \in Doers :
        /\ maxRetries >= 1
        /\ rpc[d] = "done"
        /\ rctx[d] = "none"
        /\ nFail[d] = 0
        /\ allRetry[d]
        /\ tcalls[d] = maxRetries + 1
        /\ resp[d].call = tcalls[d]
        /\ resp[d].status = 500
        /\ rret[d] = NoErr

\* C20: once the first transport call of a call has been answered with an
\* unlisted status, the call has returned that response with a nil error
\* after one transport call and one limiter admission, whatever
\* maxRetries is.
C20_FirstAnswerUnlisted ==
    \A d \in Doers :
        (resp[d].call = 1 /\ resp[d].status \notin retryOnStatus)
        => /\ rpc[d] = "done"
           /\ rret[d] = NoErr
           /\ ~resp[d].closed
           /\ tcalls[d] = 1
           /\ consumed[d] = <<1, 1, 1>>
           /\ sleeps[d] = 0

\* An unlisted 502 on the first attempt of a client with retries left.
C20_Witness ==
    \E d \in Doers :
        /\ maxRetries >= 1
        /\ retryOnStatus = {500}
        /\ rpc[d] = "done"
        /\ resp[d] = [call |-> 1, status |-> 502, closed |-> FALSE]
        /\ rret[d] = NoErr
        /\ tcalls[d] = 1
        /\ consumed[d] = <<1, 1, 1>>

\* C21: on a client without listed statuses an answered transport call
\* ends the call at once with that response, unreleased, and a nil error;
\* every sleep and every further attempt of a call follows a transport
\* failure.
C21_NoListNoStatusRetry ==
    retryOnStatus = {} =>
        \A d \in Doers :
            /\ Answered(d) =>
                  /\ rpc[d] = "done"
                  /\ rret[d] = NoErr
                  /\ ~resp[d].closed
            /\ sleeps[d] <= nFail[d]
            /\ tcalls[d] <= nFail[d] + 1

\* Without a list: a transport failure was retried, the 500 that answered
\* the second call was returned.
C21_Witness ==
    \E d \in Doers :
        /\ retryOnStatus = {}
        /\ rpc[d] = "done"
        /\ nFail[d] = 1
        /\ resp[d] = [call |-> 2, status |-> 500, closed |-> FALSE]
        /\ rret[d] = NoErr

\* C22: a Client.Do call that has returned a non-nil error has returned a
\* nil response.
C22_ErrorMeansNoResponse ==
    \A d \in Doers :
        (rpc[d] = "done" /\ rret[d] # NoErr) => resp[d] = NoResp

\* C23: a non-nil error returned by Client.Do is the error of the call's
\* context or the error that the latest transport call of the same call
\* returned.
C23_ErrorsPropagateUnchanged ==
    \A d \in Doers :
        (rpc[d] = "done" /\ rret[d] # NoErr)
        => \/ rret[d] = rctx[d]
           \/ /\ rret[d] \in TransportErrs
              /\ nFail[d] >= 1
              /\ rret[d] = lastFnErr[d]

\* Wait failed on a fired context in the second attempt: Do returned the
\* context's error, not the transport error of the first.
C23_Witness ==
    \E d \in Doers :
        /\ rpc[d] = "done"
        /\ nFail[d] = 1
        /\ calls[d] = 2
        /\ tcalls[d] = 1
        /\ lastErr[d] = "e1"
        /\ pc[d] = "done" /\ ret[d] = "DeadlineExceeded"
        /\ rret[d] = "DeadlineExceeded"

\* C29: the admissions a Client.Do call has consumed are its transport
\* calls, plus the one whose transport call is about to be made; when the
\* call has returned the two numbers are equal, and neither exceeds
\* maxRetries + 1.
C29_OneAdmissionPerTransportCall ==
    \A d \in Doers :
        LET waited == rpc[d] = "fn" /\ pc[d] = "done" /\ ret[d] = NoErr
            adm == tcalls[d] + (IF waited THEN 1 ELSE 0)
        IN  /\ consumed[d] = <<adm, adm, adm>>
            /\ rpc[d] = "done" => consumed[d] = <<tcalls[d], tcalls[d], tcalls[d]>>
            /\ adm <= maxRetries + 1

\* A call that retried: two admissions, two transport calls.
C29_Witness ==
    \E d \in Doers :
        /\ rpc[d] = "done"
        /\ tcalls[d] = 2
        /\ consumed[d] = <<2, 2, 2>>

\* C30: while a Client.Do call sleeps, waits for the limiter or is about
\* to call the transport, the response it holds, if any, has been
\* released; a response with a listed status is released from the moment
\* it is received.
C30_DiscardedBodyReleased ==
    \A d \in Doers :
        /\ rpc[d] \in {"sleep", "top", "fn"} =>
              (resp[d] = NoResp \/ resp[d].closed)
        /\ (resp[d] # NoResp /\ resp[d].status \in retryOnStatus) =>
              resp[d].closed

\* Sleeping after a 500 whose body has been released.
C30_Witness ==
    \E d \in Doers :
        /\ rpc[d] = "sleep"
        /\ resp[d] = [call |-> 1, status |-> 500, closed |-> TRUE]

\* The start the caller passed is an instant of the day that Fetch read
\* as today in Asia/Kolkata, or of another day.
StartToday == ~IsZero(fargs.start) /\ DateOf(In(fargs.start, IST)) = DateOf(fetchNow)
StartOtherDay == ~IsZero(fargs.start) /\ DateOf(In(fargs.start, IST)) # DateOf(fetchNow)

\* C24: a Fetch whose start is on the current day in Asia/Kolkata never
\* calls Upstox, calls Yahoo once and returns what Yahoo returned.
C24_CurrentDayOnlyYahoo ==
    (fpc # "idle" /\ StartToday)
    => /\ upstoxCalls = 0
       /\ fpc # "upstox"
       /\ yahooCalls = (IF fpc = "route" THEN 0 ELSE 1)
       /\ fpc = "done" => fret = yahooRet

\* A start given in UTC, on the previous day there and on the current
\* day in Asia/Kolkata, was served by Yahoo.
C24_Witness ==
    /\ fpc = "done"
    /\ StartToday
    /\ fargs.start.loc = UTC
    /\ DateOf(fargs.start) # DateOf(fetchNow)
    /\ yahooCalls = 1
    /\ upstoxCalls = 0
    /\ fret = [data |-> <<"c1">>, err |-> "nil"]

\* C25: a Fetch whose start is on another day calls Upstox once, first;
\* Yahoo is called, once, exactly when Upstox has returned an error or no
\* data, and then Fetch returns what Yahoo returned; otherwise Fetch
\* returns the data of Upstox and a nil error.
C25_UpstoxFirstThenYahoo ==
    (fpc # "idle" /\ StartOtherDay)
    => /\ upstoxCalls = (IF fpc = "route" THEN 0 ELSE 1)
       /\ fpc \in {"route", "upstox"} => (yahooCalls = 0 /\ err = "none")
       /\ fpc \in {"yahoo", "done"} =>
             /\ err # "none"
             /\ yahooCalls = (IF err # "nil" \/ Len(data) = 0 THEN 1 ELSE 0)
       /\ fpc = "done" =>
             IF yahooCalls = 1
             THEN fret = yahooRet
             ELSE fret = [data |-> data, err |-> "nil"] /\ Len(data) > 0

\* Upstox failed, Yahoo failed, Fetch failed.
C25_Witness ==
    /\ fpc = "done"
    /\ StartOtherDay
    /\ err = "perr"
    /\ upstoxCalls = 1 /\ yahooCalls = 1
    /\ yahooRet.err = "perr"
    /\ fret = yahooRet

\* C26: a Fetch with a zero start has as start 00:00 of the current day
\* in Asia/Kolkata, passes it to Yahoo and never calls Upstox.
C26_ZeroStartIsTodayMidnight ==
    (fpc # "idle" /\ IsZero(fargs.start))
    => /\ start.loc = IST
       /\ DateOf(start) = DateOf(fetchNow)
       /\ (start.inst + KolkataOffset) % DayLen = 0
       /\ upstoxCalls = 0
       /\ fpc # "upstox"
       /\ fpc \in {"yahoo", "done"} =>
             (yahooCalls = 1 /\ yreq.from = Unix(start))

\* A zero start, later in the day than midnight, served by Yahoo.
C26_Witness ==
    /\ fpc = "done"
    /\ IsZero(fargs.start)
    /\ fetchNow.inst > start.inst
    /\ yahooCalls = 1
    /\ upstoxCalls = 0
    /\ fret = yahooRet

\* C27: when end is zero, the end of the range that a provider puts in
\* its request is the current time: period2 for Yahoo, the date of today
\* for Upstox.
C27_ZeroEndIsNow ==
    IsZero(fargs.end)
    => /\ yahooCalls >= 1 => yreq.to = Unix(fetchNow)
       /\ upstoxCalls >= 1 => ureq.to = DateOf(fetchNow)

\* C28: the limiter of each provider's client has the ceilings 50 per
\* second, 500 per minute and 2000 per hour.
C28_DocumentedCeilings ==
    /\ provCfg.upstox = <<50, 500, 2000>>
    /\ provCfg.yahoo = <<50, 500, 2000>>

\* ---------------------------------------------------------------------
\* C31: the counts and the resetAt values are read and written only by the
\* caller that holds the mutex; at most one caller is inside canProceed or
\* increment; a caller in the poll sleep, at the top of the loop, between
\* canProceed and increment, or returned does not hold the mutex; and the
\* holder can always take the step that releases it.
Windows == <<secCount, minCount, hrCount, secReset, minReset, hrReset>>

InCritical(p) == pc[p] \in {"cpIn", "incIn"}

C31_MutexGuardsWindows ==
    /\ [](\A p \in Callers : InCritical(p) <=> mu = p)
    /\ [](\A p, q \in Callers : (InCritical(p) /\ InCritical(q)) => p = q)
    /\ [](mu # 0 => ENABLED (CanProceedBody(mu) \/ IncrementBody(mu)))
    /\ [][Windows' # Windows =>
             (mu \in Callers /\ InCritical(mu) /\ mu' = 0
              /\ pc'[mu] \notin {"cpIn", "incIn"})]_vars

\* One caller is in the poll sleep while another is inside canProceed.
C31_Witness ==
    \E p, q \in Callers :
        /\ pc[p] = "sleep"
        /\ pc[q] = "cpIn"
        /\ mu = q

\* ---------------------------------------------------------------------
\* C32: an admission check at time now sets a window's count to 0 and its
\* resetAt to now plus the window's duration exactly when now is strictly
\* after that window's resetAt, and leaves every other window as it was;
\* no other step changes a resetAt or lowers a count.
ResetsWindow(n, reset, dur, count) ==
    IF n > reset
    THEN count' = 0 /\ reset' = n + dur
    ELSE count' = count /\ reset' = reset

C32_LazyIndependentReset ==
    [][IF \E p \in Callers : pc[p] = "cpIn" /\ pc'[p] # "cpIn"
       THEN /\ ResetsWindow(now, secReset, SecDur, secCount)
            /\ ResetsWindow(now, minReset, MinDur, minCount)
            /\ ResetsWindow(now, hrReset, HrDur, hrCount)
       ELSE /\ <<secReset, minReset, hrReset>>' = <<secReset, minReset, hrReset>>
            /\ secCount' >= secCount
            /\ minCount' >= minCount
            /\ hrCount' >= hrCount]_vars

\* The second window was reset after an admission, the minute and hour
\* windows were not.
C32_Witness ==
    /\ secCount = 0
    /\ secReset > SecDur
    /\ minCount > 0
    /\ minReset = MinDur
    /\ hrCount > 0
    /\ hrReset = HrDur

\* ---------------------------------------------------------------------
\* C39: no window's resetAt ever moves backwards; right after an admission
\* check at time now no window's resetAt is earlier than now; the counts
\* are never negative.
C39_ResetAtMonotone ==
    /\ [](secCount >= 0 /\ minCount >= 0 /\ hrCount >= 0)
    /\ [][/\ secReset' >= secReset
          /\ minReset' >= minReset
          /\ hrReset' >= hrReset
          /\ (\E p \in Callers : pc[p] = "cpIn" /\ pc'[p] # "cpIn") =>
                (secReset' >= now /\ minReset' >= now /\ hrReset' >= now)]_vars

\* An admission check two boundaries late has just moved every window.
C39_Witness ==
    /\ \E p \in Callers : pc[p] \in {"incLock", "sleep"}
    /\ now > HrDur
    /\ secReset = now + SecDur
    /\ minReset = now + MinDur
    /\ hrReset = now + HrDur

\* ---------------------------------------------------------------------
\* C33: a response that Client.Do has returned together with a nil error
\* has a body that Client.Do did not close, the response returned after
\* the retries ran out on a listed status included.
C33_ReturnedBodyOpen ==
    \A d \in Doers :
        (rpc[d] = "done" /\ rret[d] = NoErr /\ resp[d] # NoResp)
        => ~resp[d].closed

\* ---------------------------------------------------------------------
\* C34: whatever maxRetries is, a Do call that has returned nil, or that
\* has returned without its context ever firing, invoked the attempt
\* function at least once.
C34_AtLeastOneAttempt ==
    \A d \in Doers :
        (rpc[d] = "done" /\ (rret[d] = NoErr \/ rctx[d] = "none"))
        => calls[d] >= 1

\* ---------------------------------------------------------------------
\* C35: with baseDelay and maxDelay not negative, the delay slept after
\* attempt k is not negative, is at most maxDelay, and is at least the
\* delay of every earlier attempt index.
C35_BackoffBoundedMonotone ==
    \A d \in Doers :
        rpc[d] = "sleep" =>
            /\ baseDelay >= 0 /\ maxDelay >= 0
            /\ delay[d] >= 0
            /\ delay[d] <= maxDelay
            /\ \A j \in 0..attempt[d] : calculateBackoff(j) <= delay[d]

\* ---------------------------------------------------------------------
\* C37: whether or not the context has fired, once an attempt has reported
\* shouldRetry = false the call has returned that attempt's err, and once
\* the last permitted attempt (the maxRetries + 1st) has reported
\* shouldRetry = true the call returns that attempt's err as its next
\* step: the context's error never takes the place of either.
C37_ResultNotReplaced ==
    \A d \in Doers :
        /\ (calls[d] >= 1 /\ ~allRetry[d])
           => (rpc[d] = "done" /\ rret[d] = lastFnErr[d])
        /\ (calls[d] = maxRetries + 1 /\ allRetry[d])
           => /\ Exhausted(d) \/ rpc[d] = "done"
              /\ lastErr[d] = lastFnErr[d]
              /\ ~ENABLED CtxReturn(d)
              /\ rpc[d] = "done" => rret[d] = lastFnErr[d]

\* The context fired while the last permitted attempt was running; the
\* attempt failed in the transport and the call returned that failure.
C37_Witness ==
    \E d \in Doers :
        /\ rpc[d] = "done"
        /\ rctx[d] = "Canceled"
        /\ allRetry[d]
        /\ calls[d] = maxRetries + 1
        /\ rret[d] = "e2"

\* ---------------------------------------------------------------------
\* C36: no call invokes the attempt function more than maxRetries + 1
\* times, and, provided every limiter wait of a call ends, the call
\* returns.
InLimiterWait(d) == rpc[d] = "fn" /\ pc[d] # "done"

C36_Terminates ==
    /\ [](\A d \in Doers : calls[d] <= maxRetries + 1
                             /\ sleeps[d] <= maxRetries)
    /\ \A d \in Doers :
          (InLimiterWait(d) ~> ~InLimiterWait(d))
          => (rpc[d] \in {"top", "fn", "sleep"} ~> rpc[d] = "done")

\* A call that used every attempt, with transport failures and answered
\* attempts, slept between them and returned.
C36_Witness ==
    \E d \in Doers :
        /\ rpc[d] = "done"
        /\ maxRetries >= 1
        /\ calls[d] = maxRetries + 1
        /\ sleeps[d] = maxRetries
        /\ nFail[d] >= 1
        /\ resp[d].call >= 1

\* ---------------------------------------------------------------------
\* C38: of two concurrent Do calls on one client, no step changes the
\* locals of both (the calls share the limiter only), and what a call
\* returns is its own: the response of its own latest transport call, the
\* error of its own latest attempt, or its own context's error.
ClientLocals(d) ==
    <<DoLocals(d), allRetry[d], lastFnErr[d], sleeps[d], resp[d], tcalls[d],
      nFail[d], pc[d], ctx[d], ret[d], consumed[d]>>

C38_CallsShareOnlyLimiter ==
    /\ [][\A d, q \in Sharers :
             (d # q /\ ClientLocals(d)' # ClientLocals(d))
             => ClientLocals(q)' = ClientLocals(q)]_vars
    /\ [](\A d \in Sharers :
             /\ resp[d] # NoResp =>
                   (tcalls[d] >= 1 /\ resp[d].call = tcalls[d])
             /\ rpc[d] = "done" =>
                   /\ rret[d] \in {lastFnErr[d], rctx[d]}
                   /\ rret[d] \in CtxErrs => rret[d] = rctx[d]
                   /\ rret[d] \in TransportErrs =>
                         (nFail[d] >= 1 /\ resp[d] = NoResp)
                   /\ (rret[d] = NoErr /\ calls[d] >= 1) =>
                         resp[d].call = tcalls[d])

\* Both calls are in their backoff sleep, one after a 500 of its own and
\* the other after a transport failure of its own.
C38_Witness ==
    /\ rpc[1] = "sleep"
    /\ resp[1] = [call |-> 1, status |-> 500, closed |-> TRUE]
    /\ rpc[2] = "sleep"
    /\ resp[2] = NoResp
    /\ lastFnErr[2] = "e1"
    /\ mu = 0

====
